---- MODULE Spec2Model ----
(***************************************************************************)
(* A model of bqtestmagic: the sql cell magic (SQLTestMagic.sql), the test *)
(* orchestrator (BigQueryTest.test), the query validator                   *)
(* (BigQueryTest.validate_query) and the comparator                        *)
(* (BigQueryTest.query_to_check_that_two_query_results_match).             *)
(*                                                                         *)
(* Python values are encoded uniformly so that TLC can compare them:       *)
(*   None            the string "None"                                     *)
(*   a Path / str    a string                                              *)
(*   a SQL text      a sequence of tokens [kind, rows]                     *)
(*   a warehouse row a sequence of typed values [t, v]                     *)
(*   a DataFrame     a sequence of rows of values [t, v] with pandas dtypes*)
(*   the markers     PassMarker (the check mark), FailMarker (the cross)   *)
(***************************************************************************)
EXTENDS Integers, Sequences, FiniteSets, Bags, TLC

VARIABLES pc, line, query, args, client, actual, expected_sql, equals,
          exc, testres, ret, calls, stdout, stderr, left, right

vars == <<pc, line, query, args, client, actual, expected_sql, equals,
          exc, testres, ret, calls, stdout, stderr, left, right>>

\* Longest result set of a query drawn for the comparator.
MaxRows == 2

None == "None"

PassMarker == "PASS"

FailMarker == "FAIL"

(***************************************************************************)
(* Warehouse values and rows.                                              *)
(***************************************************************************)
I1 == [t |-> "INT64", v |-> "1"]

S1 == [t |-> "STRING", v |-> "1"]

NULL == [t |-> "NULL", v |-> "NULL"]

\* The column types of a result set. Every row of one result set has the
\* same columns, and a column holds values of its type or NULL.
Schemas == {<<"INT64">>, <<"STRING">>, <<"INT64", "INT64">>}

ValuesOf(t) == IF t = "INT64" THEN {I1, NULL} ELSE {S1, NULL}

RowsOf(schema) ==
  {row \in [DOMAIN schema -> {I1, S1, NULL}] :
     \A i \in DOMAIN schema : row[i] \in ValuesOf(schema[i])}

SeqsUpTo(S, n) == UNION {[1..k -> S] : k \in 0..n}

ResultSets == UNION {SeqsUpTo(RowsOf(schema), MaxRows) : schema \in Schemas}

(***************************************************************************)
(* SQL texts as token sequences. A SELECT token stands for the text of one *)
(* SELECT statement and carries the rows the warehouse returns for it.     *)
(***************************************************************************)
Tok(k) == [kind |-> k, rows |-> <<>>]

Sel(rs) == [kind |-> "SELECT", rows |-> rs]

NL == Tok("NL")

SP == Tok("SP")

CMT == Tok("COMMENT")

SEMI == Tok("SEMI")

DEL == Tok("DELETE")

GARBAGE == Tok("GARBAGE")

IsSpace(tok) == tok.kind \in {"NL", "SP"}

IsStatement(tok) == tok.kind \in {"SELECT", "DELETE"}

\* The ways a text goes on after its statement: nothing, a newline, a line
\* comment, a line comment and a newline.
Tails == {<<>>, <<NL>>, <<CMT>>, <<CMT, NL>>}

SelectTexts == {<<Sel(rs)>> \o tl : rs \in ResultSets, tl \in Tails}

(***************************************************************************)
(* str.rstrip and textwrap.indent on token sequences.                      *)
(***************************************************************************)
RECURSIVE RStrip(_)
RStrip(text) ==
  IF text = <<>> THEN <<>>
  ELSE IF IsSpace(text[Len(text)]) THEN RStrip(SubSeq(text, 1, Len(text) - 1))
  ELSE text

\* TRUE iff the line starting at position i holds a token that is no space.
RECURSIVE LineHasText(_, _)
LineHasText(text, i) ==
  IF i > Len(text) \/ text[i].kind = "NL" THEN FALSE
  ELSE IF text[i].kind # "SP" THEN TRUE
  ELSE LineHasText(text, i + 1)

\* textwrap.indent: the prefix goes before every line that is not blank.
RECURSIVE IndentFrom(_, _)
IndentFrom(text, i) ==
  IF i > Len(text) THEN <<>>
  ELSE LET atLineStart == i = 1 \/ text[i - 1].kind = "NL"
           pre == IF atLineStart /\ LineHasText(text, i) THEN <<SP>> ELSE <<>>
       IN pre \o <<text[i]>> \o IndentFrom(text, i + 1)

Indent(text) == IndentFrom(text, 1)

(***************************************************************************)
(* The warehouse. Lexing drops spaces, newlines and line comments (a line  *)
(* comment runs to the end of its line).                                   *)
(***************************************************************************)
RECURSIVE LexFrom(_, _, _)
LexFrom(text, i, inComment) ==
  IF i > Len(text) THEN <<>>
  ELSE IF inComment THEN LexFrom(text, i + 1, text[i].kind # "NL")
  ELSE IF text[i].kind = "COMMENT" THEN LexFrom(text, i + 1, TRUE)
  ELSE IF IsSpace(text[i]) THEN LexFrom(text, i + 1, FALSE)
  ELSE <<text[i]>> \o LexFrom(text, i + 1, FALSE)

Lex(text) == LexFrom(text, 1, FALSE)

\* FORMAT("%T", value): the value as a literal, here a sequence of strings.
FormatValue(x) ==
  CASE x.t = "INT64" -> <<x.v>>
    [] x.t = "STRING" -> <<"dquote", x.v, "dquote">>
    [] OTHER -> <<"NULL">>

RECURSIVE FormatFields(_, _)
FormatFields(row, i) ==
  IF i > Len(row) THEN <<>>
  ELSE (IF i > 1 THEN <<", ">> ELSE <<>>) \o FormatValue(row[i])
       \o FormatFields(row, i + 1)

\* FORMAT("%T", row) of a row as a STRUCT: STRUCT(x) for one field,
\* (x, y, ...) for more.
FormatT(row) ==
  IF Len(row) = 1 THEN <<"STRUCT(">> \o FormatFields(row, 1) \o <<")">>
  ELSE <<"(">> \o FormatFields(row, 1) \o <<")">>

\* SELECT FORMAT("%T", t) AS json_string, COUNT(*) AS count ... GROUP BY
\* json_string: a function from each json_string to its count.
GroupCount(rows) ==
  [s \in {FormatT(rows[i]) : i \in DOMAIN rows} |->
     Cardinality({i \in DOMAIN rows : FormatT(rows[i]) = s})]

\* A column of a FULL JOIN is NULL on the side with no partner: a count is
\* {n}, NULL is {}.
CountOf(g, s) == IF s \in DOMAIN g THEN {g[s]} ELSE {}

FullJoinUsing(a, e) ==
  {[json_string |-> s, actual_count |-> CountOf(a, s),
    expected_count |-> CountOf(e, s)] : s \in DOMAIN a \cup DOMAIN e}

\* x = y in SQL's three-valued logic.
SqlEq(x, y) ==
  IF x = {} \/ y = {} THEN "NULL" ELSE IF x = y THEN "TRUE" ELSE "FALSE"

\* WHERE (actual.count = expected.count) IS NOT TRUE
Mismatches(a, e) ==
  {j \in FullJoinUsing(a, e) : SqlEq(j.actual_count, j.expected_count) # "TRUE"}

\* SELECT NOT EXISTS(...): one row of one BOOL.
EvalComparator(actualRows, expectedRows) ==
  LET b == Mismatches(GroupCount(actualRows), GroupCount(expectedRows)) = {}
  IN <<<<[t |-> "BOOL", v |-> IF b THEN "true" ELSE "false"]>>>>

IsComparatorStatement(toks) ==
  /\ Len(toks) = 7
  /\ toks[1].kind = "HEAD" /\ toks[2].kind = "SELECT"
  /\ toks[3].kind = "CLOSE_ACTUAL" /\ toks[4].kind = "MID"
  /\ toks[5].kind = "SELECT" /\ toks[6].kind = "CLOSE_EXPECTED"
  /\ toks[7].kind = "TAIL"

\* The statements of a text: each statement token, when the tokens are
\* statements separated by semicolons (a last semicolon is allowed);
\* <<>> when the text does not parse.
RECURSIVE Statements(_, _)
Statements(toks, i) ==
  IF i > Len(toks) THEN <<>>
  ELSE IF ~IsStatement(toks[i]) THEN <<>>
  ELSE IF i = Len(toks) THEN <<toks[i]>>
  ELSE IF toks[i + 1].kind # "SEMI" THEN <<>>
  ELSE IF i + 1 = Len(toks) THEN <<toks[i]>>
  ELSE LET rest == Statements(toks, i + 2)
       IN IF rest = <<>> THEN <<>> ELSE <<toks[i]>> \o rest

\* client.query(text) run to its result: [error, rows].
RunQuery(text) ==
  LET toks == Lex(text)
  IN IF Len(toks) = 1 /\ toks[1].kind = "SELECT"
       THEN [error |-> None, rows |-> toks[1].rows]
     ELSE IF IsComparatorStatement(toks)
       THEN [error |-> None, rows |-> EvalComparator(toks[2].rows, toks[5].rows)]
     ELSE [error |-> "BadRequest", rows |-> <<>>]

\* client.query(text, dry_run=True): [error, statement_type].
DryRun(text) ==
  LET stmts == Statements(Lex(text), 1)
  IN IF stmts = <<>> THEN [error |-> "BadRequest", statement_type |-> None]
     ELSE IF Len(stmts) > 1 THEN [error |-> None, statement_type |-> "SCRIPT"]
     ELSE [error |-> None, statement_type |-> stmts[1].kind]

(***************************************************************************)
(* BigQueryTest.query_to_check_that_two_query_results_match.               *)
(***************************************************************************)
\* The SQL text the f-string builds: each query, right-stripped and
\* indented, starts a new line after "FROM (" and is followed on its last
\* line by " ) AS actual" (or " ) AS expected").
ComparatorSql(l, r) ==
  <<Tok("HEAD"), NL>> \o Indent(RStrip(l))
  \o <<SP, Tok("CLOSE_ACTUAL"), NL, Tok("MID"), NL>> \o Indent(RStrip(r))
  \o <<SP, Tok("CLOSE_EXPECTED"), NL, Tok("TAIL"), NL>>

\* [raised, value]: raised is None and value the boolean of the first
\* column of the first row, or raised is the warehouse's error.
query_to_check_that_two_query_results_match(l, r) ==
  LET job == RunQuery(ComparatorSql(l, r))
  IN IF job.error # None THEN [raised |-> job.error, value |-> FALSE]
     ELSE [raised |-> None, value |-> job.rows[1][1].v = "true"]

(***************************************************************************)
(* BigQueryTest.validate_query: the exception it raises, or None. The      *)
(* first definition rejects scripts only; the second is the code's.        *)
(***************************************************************************)
validate_query_ScriptsOnly(text) ==
  LET job == DryRun(text)
  IN IF job.error # None THEN job.error
     ELSE IF job.statement_type = "SCRIPT" THEN "ValueError"
     ELSE None

validate_query(text) ==
  LET job == DryRun(text)
  IN IF job.error # None THEN job.error
     ELSE IF job.statement_type # "SELECT" THEN "ValueError"
     ELSE None

(***************************************************************************)
(* The dataframe library.                                                  *)
(***************************************************************************)
\* QueryJob.to_dataframe, value by value.
ToPandas(x) ==
  CASE x.t = "INT64" -> [t |-> "int64", v |-> x.v]
    [] x.t = "STRING" -> [t |-> "object", v |-> x.v]
    [] OTHER -> [t |-> "NA", v |-> "NaN"]

to_dataframe(rows) ==
  [i \in DOMAIN rows |-> [j \in DOMAIN rows[i] |-> ToPandas(rows[i][j])]]

\* pd.read_csv, cell by cell: digits are read as int64, an empty cell as
\* NaN, anything else as a string.
ReadCell(c) ==
  CASE c = "1" -> [t |-> "int64", v |-> c]
    [] c = "" -> [t |-> "NA", v |-> "NaN"]
    [] OTHER -> [t |-> "object", v |-> c]

read_csv(content) ==
  [i \in DOMAIN content |-> [j \in DOMAIN content[i] |-> ReadCell(content[i][j])]]

\* A comparison of the numbers of rows only.
DataFrameEquals_SameLength(a, b) == Len(a) = Len(b)

\* expected_dataframe.equals(actual)
DataFrameEquals(a, b) == a = b

(***************************************************************************)
(* The inputs of an invocation and its environment.                        *)
(***************************************************************************)
Targets == {"bigquery", "BigQuery", "other"}

\* str.lower on the targets.
Lower(str) == IF str = "BigQuery" THEN "bigquery" ELSE str

Choices == {"bigquery"}

\* The strings given to --labels, as sequences of characters.
LabelKV == <<"k", "=", "v">>

LabelKVW == <<"k", "=", "w", "=", "x">>

LabelBad == <<"k">>

\* --labels: absent (args.labels is None), or given with its strings.
NoLabels == [given |-> FALSE, items |-> <<>>]

LineLabels ==
  {NoLabels, [given |-> TRUE, items |-> <<LabelKV, LabelKVW>>],
   [given |-> TRUE, items |-> <<LabelBad>>]}

Lines ==
  [target : Targets, csv_file : {None, "a.csv"}, sql_file : {None, "b.sql"},
   project : {None, "my-project"}, reliable : BOOLEAN, labels : LineLabels]

\* The result sets of one INT64 column.
IntResults == SeqsUpTo(RowsOf(<<"INT64">>), MaxRows)

\* The cell body: a SELECT of one INT64 column, with or without a last
\* newline, or a text the warehouse rejects.
CellQueries ==
  {<<Sel(rs)>> \o tl : rs \in IntResults, tl \in {<<>>, <<NL>>}}
  \cup {<<GARBAGE>>}

\* What sql_file can hold: a SELECT with any tail, a SELECT of another
\* column type, a script of two statements, a DELETE, a text the warehouse
\* rejects.
SqlFileTexts ==
  {<<Sel(rs)>> \o tl : rs \in IntResults, tl \in Tails}
  \cup {<<Sel(<<<<S1>>>>)>>,
        <<Sel(<<<<I1>>>>), SEMI, Sel(<<<<I1>>>>), SEMI>>, <<DEL>>, <<GARBAGE>>}

\* What csv_file can hold (the rows under the header).
CsvContents == {<<<<"1">>>>, <<<<"1">>, <<"">>>>, <<<<"a">>>>}

(***************************************************************************)
(* Results and the record of calls.                                        *)
(***************************************************************************)
Unset == [kind |-> "unset", data |-> <<>>, exc |-> None]

ReturnDF(d) == [kind |-> "DataFrame", data |-> d, exc |-> None]

ReturnNone == [kind |-> "NoneType", data |-> <<>>, exc |-> None]

Raised(e) == [kind |-> "raise", data |-> <<>>, exc |-> e]

NoArgs ==
  [csv_file |-> None, sql_file |-> None, project |-> None,
   reliable |-> FALSE, labels |-> NoLabels]

NoClient == [made |-> FALSE, project |-> None, hasClose |-> FALSE]

NoLine ==
  [target |-> None, csv_file |-> None, sql_file |-> None, project |-> None,
   reliable |-> FALSE, labels |-> NoLabels]

NoKw == [csv_file |-> None, sql_file |-> None, reliable |-> FALSE]

\* A call: the callee (op), its SQL text arguments (text, text2), its
\* string argument (str), the number of positional arguments (nargs), the
\* names of its keyword arguments (names) with the values of csv_file,
\* sql_file and reliable (kw) and of labels (labels), and what it raised
\* (None when it returned), and the dataframe it returned (data).
Call(op) ==
  [op |-> op, text |-> <<>>, text2 |-> <<>>, str |-> None, nargs |-> 0,
   names |-> {}, kw |-> NoKw, labels |-> <<>>, raised |-> None,
   data |-> <<>>]

Truthy(x) == x # None

(***************************************************************************)
(* label and the labels dictionary of SQLTestMagic.sql.                    *)
(***************************************************************************)
HasEq(str) == \E i \in DOMAIN str : str[i] = "="

FirstEq(str) ==
  CHOOSE i \in DOMAIN str :
    str[i] = "=" /\ \A j \in DOMAIN str : str[j] = "=" => i <= j

\* tuple(string.split("=", 1))
label(str) ==
  <<SubSeq(str, 1, FirstEq(str) - 1), SubSeq(str, FirstEq(str) + 1, Len(str))>>

\* {k: v for k, v in pairs}: a later pair replaces an earlier one of the
\* same key.
DictOf(pairs) ==
  [k \in {pairs[i][1] : i \in DOMAIN pairs} |->
     LET last == CHOOSE i \in DOMAIN pairs :
                   pairs[i][1] = k
                   /\ \A j \in DOMAIN pairs : pairs[j][1] = k => j <= i
     IN pairs[last][2]]

\* type=Path
Path(str) == IF str = "a.csv" THEN "Path(a.csv)" ELSE "Path(b.sql)"

Parsed(l) ==
  [csv_file |-> IF l.csv_file = None THEN None ELSE Path(l.csv_file),
   sql_file |-> IF l.sql_file = None THEN None ELSE Path(l.sql_file),
   project |-> l.project,
   reliable |-> l.reliable,
   labels |-> [given |-> l.labels.given,
               items |-> [i \in DOMAIN l.labels.items |->
                            label(l.labels.items[i])]]]

\* What parse_argstring raises for a line, or None.
ParseError(l) ==
  IF Lower(l.target) \notin Choices THEN "UsageError"
  ELSE IF \E i \in DOMAIN l.labels.items : ~HasEq(l.labels.items[i])
    THEN "UsageError"
  ELSE None

\* labels={k: v for k, v in args.labels} if args.labels else {}
LabelsArg(a) ==
  IF ~a.labels.given \/ a.labels.items = <<>> THEN <<>>
  ELSE DictOf(a.labels.items)

(***************************************************************************)
(* The decisions of BigQueryTest.test and BigQueryTest.__exit__.           *)
(***************************************************************************)
\* The check of line 77 left out.
BothSet_Never(a) == FALSE

\* if csv_file and sql_file
BothSet(a) == Truthy(a.csv_file) /\ Truthy(a.sql_file)

\* The test of reliable the wrong way round.
AfterOpen_Inverted(reliable) == IF reliable THEN "validate" ELSE "compare"

\* if not reliable: validate, else go on to the comparator
AfterOpen(reliable) == IF ~reliable THEN "validate" ELSE "compare"

\* The two markers exchanged.
Marker_Swapped(eq) == IF eq THEN FailMarker ELSE PassMarker

\* "check mark" if equals else "cross"
Marker(eq) == IF eq THEN PassMarker ELSE FailMarker

\* close called without the hasattr test.
CloseAlways(c, log) == Append(log, Call("close"))

\* if hasattr(self.client, "close"): self.client.close()
CloseIfPresent(c, log) == IF c.hasClose THEN Append(log, Call("close")) ELSE log

(***************************************************************************)
(* The state machine.                                                      *)
(***************************************************************************)
Init ==
  /\ pc = "idle"
  /\ line = NoLine
  /\ query = <<>>
  /\ args = NoArgs
  /\ client = NoClient
  /\ actual = <<>>
  /\ expected_sql = <<>>
  /\ equals = FALSE
  /\ exc = None
  /\ testres = Unset
  /\ ret = Unset
  /\ calls = <<>>
  /\ stdout = <<>>
  /\ stderr = <<>>
  /\ left = <<>>
  /\ right = <<>>

\* The notebook runs a cell: %%sql line, with the cell body as query.
Invoke ==
  /\ pc = "idle"
  /\ \E l \in Lines, q \in CellQueries :
       /\ line' = l
       /\ query' = q
  /\ pc' = "parse"
  /\ args' = NoArgs
  /\ client' = NoClient
  /\ actual' = <<>>
  /\ expected_sql' = <<>>
  /\ equals' = FALSE
  /\ exc' = None
  /\ testres' = Unset
  /\ ret' = Unset
  /\ calls' = <<>>
  /\ stdout' = <<>>
  /\ stderr' = <<>>
  /\ left' = <<>>
  /\ right' = <<>>

\* SQLTestMagic.sql: magic_arguments.parse_argstring(self.sql, line)
sql_parse ==
  /\ pc = "parse"
  /\ IF ParseError(line) # None
       THEN /\ ret' = Raised(ParseError(line))
            /\ pc' = "done"
            /\ args' = args
       ELSE /\ args' = Parsed(line)
            /\ pc' = "construct"
            /\ ret' = ret
  /\ UNCHANGED <<line, query, client, actual, expected_sql, equals, exc,
                 testres, calls, stdout, stderr, left, right>>

\* BigQueryTest.__init__ and __enter__: bigquery.Client(project). The
\* installed client library decides whether the client has close, and the
\* constructor can fail (no credentials).
sql_construct ==
  /\ pc = "construct"
  /\ \/ \E hc \in BOOLEAN :
          /\ client' = [made |-> TRUE, project |-> args.project, hasClose |-> hc]
          /\ calls' = Append(calls, [Call("Client") EXCEPT !.str = args.project,
                                                           !.nargs = 1])
          /\ pc' = "test"
          /\ ret' = ret
     \/ /\ calls' = Append(calls, [Call("Client") EXCEPT
                                     !.str = args.project, !.nargs = 1,
                                     !.raised = "DefaultCredentialsError"])
        /\ ret' = Raised("DefaultCredentialsError")
        /\ pc' = "done"
        /\ client' = client
  /\ UNCHANGED <<line, query, args, actual, expected_sql, equals, exc,
                 testres, stdout, stderr, left, right>>

\* BigQueryTest.test, called with the keyword arguments of sql: the check
\* that csv_file and sql_file are not both set.
test_entry ==
  /\ pc = "test"
  /\ calls' = Append(calls, [Call("test") EXCEPT
                               !.text = query,
                               !.names = {"query", "csv_file", "sql_file",
                                          "reliable", "labels"},
                               !.kw = [csv_file |-> args.csv_file,
                                       sql_file |-> args.sql_file,
                                       reliable |-> args.reliable],
                               !.labels = LabelsArg(args)])
  /\ IF BothSet(args)
       THEN /\ testres' = Raised("ValueError")
            /\ pc' = "exit"
       ELSE /\ testres' = testres
            /\ pc' = "download"
  /\ UNCHANGED <<line, query, args, client, actual, expected_sql, equals,
                 exc, ret, stdout, stderr, left, right>>

\* actual = self.download_query_results_to_dataframe(query, labels)
test_download ==
  /\ pc = "download"
  /\ LET job == RunQuery(query)
     IN /\ calls' = Append(calls,
                      [Call("download_query_results_to_dataframe") EXCEPT
                         !.text = query, !.nargs = 2,
                         !.labels = LabelsArg(args), !.raised = job.error,
                         !.data = to_dataframe(job.rows)])
        /\ IF job.error # None
             THEN /\ exc' = job.error
                  /\ pc' = "except"
                  /\ actual' = actual
             ELSE /\ actual' = to_dataframe(job.rows)
                  /\ exc' = exc
                  /\ pc' = IF Truthy(args.sql_file) THEN "open"
                           ELSE IF Truthy(args.csv_file) THEN "read_csv"
                           ELSE "return"
  /\ UNCHANGED <<line, query, args, client, expected_sql, equals, testres,
                 ret, stdout, stderr, left, right>>

\* with open(sql_file) as f: expected_sql = f.read()
test_open ==
  /\ pc = "open"
  /\ \/ /\ calls' = Append(calls, [Call("open") EXCEPT
                                     !.str = args.sql_file, !.nargs = 1,
                                     !.raised = "FileNotFoundError"])
        /\ exc' = "FileNotFoundError"
        /\ pc' = "except"
        /\ expected_sql' = expected_sql
     \/ \E content \in SqlFileTexts :
          /\ calls' = Append(calls, [Call("open") EXCEPT
                                       !.str = args.sql_file, !.nargs = 1,
                                       !.text = content])
          /\ expected_sql' = content
          /\ exc' = exc
          /\ pc' = AfterOpen(args.reliable)
  /\ UNCHANGED <<line, query, args, client, actual, equals, testres, ret,
                 stdout, stderr, left, right>>

\* if not reliable: self.validate_query(expected_sql)
test_validate ==
  /\ pc = "validate"
  /\ LET e == validate_query(expected_sql)
     IN /\ calls' = Append(calls, [Call("validate_query") EXCEPT
                                     !.text = expected_sql, !.nargs = 1,
                                     !.raised = e])
        /\ exc' = e
        /\ pc' = IF e # None THEN "except" ELSE "compare"
  /\ UNCHANGED <<line, query, args, client, actual, expected_sql, equals,
                 testres, ret, stdout, stderr, left, right>>

\* equals = self.query_to_check_that_two_query_results_match(expected_sql,
\* query), then the print of the marker.
test_compare ==
  /\ pc = "compare"
  /\ left' = expected_sql
  /\ right' = query
  /\ LET res == query_to_check_that_two_query_results_match(expected_sql, query)
     IN /\ calls' = Append(calls,
                      [Call("query_to_check_that_two_query_results_match")
                         EXCEPT !.text = expected_sql, !.text2 = query,
                                !.nargs = 2, !.raised = res.raised,
                                !.str = IF res.value THEN "True" ELSE "False"])
        /\ IF res.raised # None
             THEN /\ exc' = res.raised
                  /\ pc' = "except"
                  /\ UNCHANGED <<equals, stdout>>
             ELSE /\ equals' = res.value
                  /\ stdout' = Append(stdout, Marker(res.value))
                  /\ exc' = exc
                  /\ pc' = IF Truthy(args.csv_file) THEN "read_csv" ELSE "return"
  /\ UNCHANGED <<line, query, args, client, actual, expected_sql, testres,
                 ret, stderr>>

\* expected_dataframe = pd.read_csv(csv_file), equals, the print of the
\* marker.
test_read_csv ==
  /\ pc = "read_csv"
  /\ \/ /\ calls' = Append(calls, [Call("read_csv") EXCEPT
                                     !.str = args.csv_file, !.nargs = 1,
                                     !.raised = "FileNotFoundError"])
        /\ exc' = "FileNotFoundError"
        /\ pc' = "except"
        /\ UNCHANGED <<equals, stdout>>
     \/ \E content \in CsvContents :
          /\ calls' = Append(calls, [Call("read_csv") EXCEPT
                                       !.str = args.csv_file, !.nargs = 1,
                                       !.data = read_csv(content)])
          /\ equals' = DataFrameEquals(read_csv(content), actual)
          /\ stdout' = Append(stdout,
                         Marker(DataFrameEquals(read_csv(content), actual)))
          /\ exc' = exc
          /\ pc' = "return"
  /\ UNCHANGED <<line, query, args, client, actual, expected_sql, testres,
                 ret, stderr, left, right>>

\* return actual
test_return ==
  /\ pc = "return"
  /\ testres' = ReturnDF(actual)
  /\ pc' = "exit"
  /\ UNCHANGED <<line, query, args, client, actual, expected_sql, equals,
                 exc, ret, calls, stdout, stderr, left, right>>

\* The exception left to propagate: no handler.
test_except_Propagates ==
  /\ pc = "except"
  /\ testres' = Raised(exc)
  /\ pc' = "exit"
  /\ UNCHANGED <<line, query, args, client, actual, expected_sql, equals,
                 exc, ret, calls, stdout, stderr, left, right>>

\* except Exception as ex: print to sys.stderr, return None
test_except ==
  /\ pc = "except"
  /\ stderr' = Append(stderr, exc)
  /\ testres' = ReturnNone
  /\ pc' = "exit"
  /\ UNCHANGED <<line, query, args, client, actual, expected_sql, equals,
                 exc, ret, calls, stdout, left, right>>

\* BigQueryTest.__exit__
bqtest_exit ==
  /\ pc = "exit"
  /\ calls' = CloseIfPresent(client, calls)
  /\ pc' = "sql_return"
  /\ UNCHANGED <<line, query, args, client, actual, expected_sql, equals,
                 exc, testres, ret, stdout, stderr, left, right>>

\* SQLTestMagic.sql returns what test returned, or the exception of test
\* leaves the with statement.
sql_return ==
  /\ pc = "sql_return"
  /\ ret' = testres
  /\ pc' = "done"
  /\ UNCHANGED <<line, query, args, client, actual, expected_sql, equals,
                 exc, testres, calls, stdout, stderr, left, right>>

\* The cell has run; the notebook is ready for the next one. Nothing of an
\* invocation outlives it: the BigQueryTest and its client are made anew for
\* every cell.
cell_done ==
  /\ pc = "done"
  /\ pc' = "idle"
  /\ line' = NoLine
  /\ query' = <<>>
  /\ args' = NoArgs
  /\ client' = NoClient
  /\ actual' = <<>>
  /\ expected_sql' = <<>>
  /\ equals' = FALSE
  /\ exc' = None
  /\ testres' = Unset
  /\ ret' = Unset
  /\ calls' = <<>>
  /\ stdout' = <<>>
  /\ stderr' = <<>>
  /\ left' = <<>>
  /\ right' = <<>>

Next ==
  \/ Invoke
  \/ sql_parse
  \/ sql_construct
  \/ test_entry
  \/ test_download
  \/ test_open
  \/ test_validate
  \/ test_compare
  \/ test_read_csv
  \/ test_return
  \/ test_except
  \/ bqtest_exit
  \/ sql_return
  \/ cell_done

Spec == Init /\ [][Next]_vars

(***************************************************************************)
(* The comparator on its own: query_to_check_that_two_query_results_match  *)
(* called with any two SELECT texts.                                       *)
(***************************************************************************)
ReturnBool == [kind |-> "bool", data |-> <<>>, exc |-> None]

InitCompare ==
  /\ pc = "compare_called"
  /\ left \in SelectTexts
  /\ right \in SelectTexts
  /\ line = NoLine
  /\ query = <<>>
  /\ args = NoArgs
  /\ client = NoClient
  /\ actual = <<>>
  /\ expected_sql = <<>>
  /\ equals = FALSE
  /\ exc = None
  /\ testres = Unset
  /\ ret = Unset
  /\ calls = <<>>
  /\ stdout = <<>>
  /\ stderr = <<>>

compare_direct ==
  /\ pc = "compare_called"
  /\ LET res == query_to_check_that_two_query_results_match(left, right)
     IN /\ equals' = res.value
        /\ ret' = IF res.raised # None THEN Raised(res.raised) ELSE ReturnBool
  /\ pc' = "compare_returned"
  /\ UNCHANGED <<line, query, args, client, actual, expected_sql, exc,
                 testres, calls, stdout, stderr, left, right>>

NextCompare == compare_direct

SpecCompare == InitCompare /\ [][NextCompare]_vars

\* The rows a SELECT text returns, as a multiset.
RowBag(text) ==
  LET rows == RunQuery(text).rows
  IN [r \in {rows[i] : i \in DOMAIN rows} |->
        Cardinality({i \in DOMAIN rows : rows[i] = r})]

\* C1: for any two queries the comparator returns true exactly when the two
\* result sets are the same multiset of rows (and false otherwise).
C1_ReturnsMultisetEquality ==
  pc = "compare_returned" =>
    /\ ret = ReturnBool
    /\ equals = (RowBag(left) = RowBag(right))

\* The comparator decides multiset equality whenever it returns.
CompareDecidesWhenItReturns ==
  (pc = "compare_returned" /\ ret = ReturnBool) =>
    equals = (RowBag(left) = RowBag(right))

\* The comparator raises exactly when one of the texts, right-stripped,
\* ends in a line comment.
EndsInComment(text) ==
  RStrip(text) # <<>> /\ RStrip(text)[Len(RStrip(text))].kind = "COMMENT"

CompareRaisesOnTrailingComment ==
  pc = "compare_returned" =>
    ((ret # ReturnBool) <=> (EndsInComment(left) \/ EndsInComment(right)))

(***************************************************************************)
(* The record of calls, read back.                                         *)
(***************************************************************************)
CallsOf(op) == {i \in DOMAIN calls : calls[i].op = op}

Count(op) == Cardinality(CallsOf(op))

Returned(op) == {i \in CallsOf(op) : calls[i].raised = None}

DownloadOp == "download_query_results_to_dataframe"

CompareOp == "query_to_check_that_two_query_results_match"

\* The calls that reach the warehouse or read a file.
WorkOps == {DownloadOp, CompareOp, "validate_query", "open", "read_csv"}

\* BigQueryTest.test has returned or raised.
TestFinished == testres # Unset

\* BigQueryTest.test was called with these of csv_file and sql_file set.
TestCalledWith(csvSet, sqlSet) ==
  \E i \in CallsOf("test") :
    /\ (calls[i].kw.csv_file # None) = csvSet
    /\ (calls[i].kw.sql_file # None) = sqlSet

\* C2: test called with both csv_file and sql_file set raises ValueError to
\* its caller (the error is not turned into a printed error and None), with
\* no download, validation, comparison or file read run and nothing printed
\* before it.
C2_BothSetRaisesValueError ==
  TestCalledWith(TRUE, TRUE) =>
    /\ testres = Raised("ValueError")
    /\ \A i \in DOMAIN calls : calls[i].op \notin WorkOps
    /\ stdout = <<>>
    /\ stderr = <<>>
    /\ (pc = "done" => ret = Raised("ValueError"))

C2_Witness ==
  /\ pc = "done"
  /\ TestCalledWith(TRUE, TRUE)
  /\ ret = Raised("ValueError")

\* C3: with csv_file set and sql_file not set, once test has finished the
\* query under test was downloaded exactly once; and when the CSV was read,
\* exactly one marker is on standard output, the pass marker exactly when
\* the dataframe read equals the downloaded one and the fail marker
\* otherwise, standard error is empty, and the downloaded dataframe is
\* returned.
C3_CsvComparison ==
  (TestCalledWith(TRUE, FALSE) /\ TestFinished) =>
    /\ Count(DownloadOp) = 1
    /\ \A d \in CallsOf(DownloadOp) : calls[d].text = query
    /\ \A r \in Returned("read_csv") : \A d \in CallsOf(DownloadOp) :
         /\ stdout = <<IF calls[r].data = calls[d].data THEN PassMarker
                       ELSE FailMarker>>
         /\ stderr = <<>>
         /\ testres = ReturnDF(calls[d].data)

C3_WitnessPass ==
  /\ TestCalledWith(TRUE, FALSE)
  /\ pc = "done"
  /\ Returned("read_csv") # {}
  /\ stdout = <<PassMarker>>
  /\ ret.kind = "DataFrame"

C3_WitnessFail ==
  /\ TestCalledWith(TRUE, FALSE)
  /\ pc = "done"
  /\ Returned("read_csv") # {}
  /\ stdout = <<FailMarker>>
  /\ ret.kind = "DataFrame"

\* C4: with sql_file set and csv_file not set, once test has finished the
\* query under test was downloaded exactly once and the comparator was run
\* at most once, on the contents of sql_file and the query under test; and
\* when the comparator returned, exactly one marker is on standard output,
\* the pass marker for true and the fail marker for false, and the
\* downloaded dataframe is returned.
C4_SqlComparison ==
  (TestCalledWith(FALSE, TRUE) /\ TestFinished) =>
    /\ Count(DownloadOp) = 1
    /\ \A d \in CallsOf(DownloadOp) : calls[d].text = query
    /\ Count(CompareOp) <= 1
    /\ \A c \in CallsOf(CompareOp) :
         /\ \E o \in Returned("open") : calls[c].text = calls[o].text
         /\ calls[c].text2 = query
    /\ \A c \in Returned(CompareOp) : \A d \in CallsOf(DownloadOp) :
         /\ stdout = <<IF calls[c].str = "True" THEN PassMarker
                       ELSE FailMarker>>
         /\ testres = ReturnDF(calls[d].data)

C4_WitnessPass ==
  /\ TestCalledWith(FALSE, TRUE)
  /\ pc = "done"
  /\ \E c \in Returned(CompareOp) : calls[c].str = "True"
  /\ stdout = <<PassMarker>>
  /\ ret.kind = "DataFrame"

C4_WitnessFail ==
  /\ TestCalledWith(FALSE, TRUE)
  /\ pc = "done"
  /\ \E c \in Returned(CompareOp) : calls[c].str = "False"
  /\ stdout = <<FailMarker>>
  /\ ret.kind = "DataFrame"

\* C5: with neither csv_file nor sql_file set, once test has finished after
\* a download that returned, the query under test was downloaded exactly
\* once with the query as its only argument, no comparison was run, the
\* downloaded dataframe is returned and nothing is printed.
C5_NoComparison ==
  (TestCalledWith(FALSE, FALSE) /\ TestFinished /\ Returned(DownloadOp) # {}) =>
    /\ Count(DownloadOp) = 1
    /\ \A d \in CallsOf(DownloadOp) :
         /\ calls[d].text = query
         /\ calls[d].nargs = 1
         /\ testres = ReturnDF(calls[d].data)
    /\ Count(CompareOp) = 0
    /\ Count("read_csv") = 0
    /\ stdout = <<>>
    /\ stderr = <<>>

\* The same with the labels argument of the download allowed for.
C5_NoComparisonButLabels ==
  (TestCalledWith(FALSE, FALSE) /\ TestFinished /\ Returned(DownloadOp) # {}) =>
    /\ Count(DownloadOp) = 1
    /\ \A d \in CallsOf(DownloadOp) :
         /\ calls[d].text = query
         /\ calls[d].nargs = 2
         /\ testres = ReturnDF(calls[d].data)
    /\ Count(CompareOp) = 0
    /\ Count("read_csv") = 0
    /\ stdout = <<>>
    /\ stderr = <<>>

\* C6: with sql_file set, once test has finished: if reliable is false and
\* sql_file was read, validate_query was called exactly once, with the
\* contents read, before any call of the comparator; if reliable is true,
\* validate_query was never called.
C6_ValidationBeforeComparison ==
  \A t \in CallsOf("test") :
    (calls[t].kw.sql_file # None /\ TestFinished) =>
      /\ (~calls[t].kw.reliable /\ Returned("open") # {}) =>
           /\ Count("validate_query") = 1
           /\ \A o \in Returned("open") : \A x \in CallsOf("validate_query") :
                calls[x].text = calls[o].text
           /\ \A c \in CallsOf(CompareOp) : \A x \in CallsOf("validate_query") :
                x < c
      /\ calls[t].kw.reliable => Count("validate_query") = 0

C6_WitnessUnreliable ==
  /\ pc = "done"
  /\ \E t \in CallsOf("test") : calls[t].kw.sql_file # None /\ ~calls[t].kw.reliable
  /\ Count("validate_query") = 1
  /\ Count(CompareOp) = 1

C6_WitnessReliable ==
  /\ pc = "done"
  /\ \E t \in CallsOf("test") : calls[t].kw.sql_file # None /\ calls[t].kw.reliable
  /\ Count(CompareOp) = 1

\* C7: validate_query raises ValueError exactly when the dry run reports a
\* statement type other than SELECT, returns without raising exactly when
\* it reports SELECT, and raises the dry run's own error when it has one.
C7_ValidateQuery ==
  \A x \in CallsOf("validate_query") :
    LET job == DryRun(calls[x].text)
    IN /\ (calls[x].raised = "ValueError") <=>
            (job.error = None /\ job.statement_type # "SELECT")
       /\ (calls[x].raised = None) <=>
            (job.error = None /\ job.statement_type = "SELECT")
       /\ job.error # None => calls[x].raised = job.error

C7_WitnessScript ==
  \E x \in CallsOf("validate_query") :
    /\ DryRun(calls[x].text).statement_type = "SCRIPT"
    /\ calls[x].raised = "ValueError"

C7_WitnessSelect ==
  \E x \in CallsOf("validate_query") :
    /\ DryRun(calls[x].text).statement_type = "SELECT"
    /\ calls[x].raised = None

C7_WitnessDryRunError ==
  \E x \in CallsOf("validate_query") : calls[x].raised = "BadRequest"

\* C8: the sql magic with a target that is not bigquery (compared without
\* case) raises NotImplementedError, and test is not called.
C8_OtherTargetNotImplemented ==
  (pc = "done" /\ Lower(line.target) # "bigquery") =>
    /\ ret = Raised("NotImplementedError")
    /\ Count("test") = 0

\* What the code does there: parse_argstring raises UsageError, and test is
\* not called.
C8_OtherTargetUsageError ==
  (pc = "done" /\ Lower(line.target) # "bigquery") =>
    /\ ret = Raised("UsageError")
    /\ Count("test") = 0
    /\ Count("Client") = 0

\* C9: an invocation of the sql magic that has called test has constructed
\* the client exactly once with the --project value and called test exactly
\* once with exactly the keyword arguments query, csv_file, sql_file and
\* reliable, their values those of the line; the magic returns what test
\* returned.
C9_TestKeywordArguments ==
  (pc = "done" /\ TestFinished) =>
    /\ Count("Client") = 1
    /\ \A c \in CallsOf("Client") : calls[c].str = line.project /\ calls[c].nargs = 1
    /\ Count("test") = 1
    /\ \A t \in CallsOf("test") :
         /\ calls[t].names = {"query", "csv_file", "sql_file", "reliable"}
         /\ calls[t].text = query
         /\ calls[t].kw = [csv_file |-> Parsed(line).csv_file,
                           sql_file |-> Parsed(line).sql_file,
                           reliable |-> line.reliable]
    /\ ret = testres

\* The same with the labels keyword argument allowed for.
C9_TestKeywordArgumentsAndLabels ==
  (pc = "done" /\ TestFinished) =>
    /\ Count("Client") = 1
    /\ \A c \in CallsOf("Client") : calls[c].str = line.project /\ calls[c].nargs = 1
    /\ Count("test") = 1
    /\ \A t \in CallsOf("test") :
         /\ calls[t].names = {"query", "csv_file", "sql_file", "reliable", "labels"}
         /\ calls[t].text = query
         /\ calls[t].kw = [csv_file |-> Parsed(line).csv_file,
                           sql_file |-> Parsed(line).sql_file,
                           reliable |-> line.reliable]
    /\ ret = testres

\* C10: close is called only after test has finished, with no arguments and
\* only on a client that has close; once __exit__ has run after test
\* (returned a dataframe, returned None or raised), close has been called
\* exactly once if the client has close and not at all if it has not.
C10_CloseAfterTest ==
  /\ \A k \in CallsOf("close") :
       /\ TestFinished
       /\ \A t \in CallsOf("test") : t < k
       /\ client.hasClose
       /\ calls[k].nargs = 0
  /\ (TestFinished /\ pc \in {"sql_return", "done"}) =>
       Count("close") = IF client.hasClose THEN 1 ELSE 0
  /\ (TestFinished /\ pc = "exit") => Count("close") = 0

C10_WitnessClosedAfterRaise ==
  /\ pc = "done"
  /\ testres.kind = "raise"
  /\ client.hasClose
  /\ Count("close") = 1

C10_WitnessClosedAfterNone ==
  /\ pc = "done"
  /\ testres = ReturnNone
  /\ client.hasClose
  /\ Count("close") = 1

C10_WitnessNoClose ==
  /\ pc = "done"
  /\ testres.kind = "DataFrame"
  /\ ~client.hasClose
  /\ Count("close") = 0

\* A call inside the try block of test raised.
RaisedIn(i) == calls[i].op \in WorkOps /\ calls[i].raised # None

\* C11: in test with at most one of csv_file and sql_file set, an exception
\* raised by the download, the read of the expectation file, validate_query
\* or the comparator is caught: nothing in the try block runs after it, test
\* returns None, the error is on standard error and no marker is on
\* standard output. When validate_query raised, the comparator was never
\* run. In every invocation at most one marker is printed.
C11_ExceptionsCaught ==
  /\ Len(stdout) <= 1
  /\ \A i \in DOMAIN stdout : stdout[i] \in {PassMarker, FailMarker}
  /\ \A x \in CallsOf("validate_query") :
       calls[x].raised # None => Count(CompareOp) = 0
  /\ \A i \in DOMAIN calls :
       RaisedIn(i) =>
         /\ ~TestCalledWith(TRUE, TRUE)
         /\ \A j \in DOMAIN calls : j > i => calls[j].op \notin WorkOps
         /\ stdout = <<>>
         /\ TestFinished =>
              /\ testres = ReturnNone
              /\ stderr = <<calls[i].raised>>
              /\ (pc = "done" => ret = ReturnNone)

C11_WitnessValidateRejects ==
  /\ pc = "done"
  /\ \E x \in CallsOf("validate_query") : calls[x].raised = "ValueError"
  /\ Count(CompareOp) = 0
  /\ ret = ReturnNone
  /\ stderr = <<"ValueError">>
  /\ stdout = <<>>

C11_WitnessCompareRaises ==
  /\ pc = "done"
  /\ \E c \in CallsOf(CompareOp) : calls[c].raised # None
  /\ ret = ReturnNone
  /\ stdout = <<>>

C11_WitnessCsvMissing ==
  /\ pc = "done"
  /\ \E r \in CallsOf("read_csv") : calls[r].raised = "FileNotFoundError"
  /\ ret = ReturnNone
  /\ stderr = <<"FileNotFoundError">>

C11_WitnessDownloadRaises ==
  /\ pc = "done"
  /\ \E d \in CallsOf(DownloadOp) : calls[d].raised = "BadRequest"
  /\ Count("open") = 0 /\ Count("read_csv") = 0
  /\ ret = ReturnNone

====
